---- MODULE Spec2Model ----
(***************************************************************************)
(* Model of the Ancient DNA API (app/main.py, app/dna_generator.py,        *)
(* app/utils.py): the in-memory sample store, its upload/lookup/list        *)
(* endpoints, the sequence generator, the similarity comparator and the     *)
(* keyword dispatcher of ask-me-anything.                                   *)
(*                                                                          *)
(* Strings that the code inspects character by character (DNA sequences,    *)
(* questions) are tuples of one-character strings.  A Python dict is a      *)
(* tuple of [key, value] entries in the dict's iteration order.             *)
(***************************************************************************)
EXTENDS Integers, Sequences, FiniteSets, TLC

VARIABLES
    ancient_data,     \* main.py:46  the store, a dict in iteration order
    GEMINI_API_KEY,   \* main.py:30  the credential read at start-up
    hashSeed,         \* the per-process key of Python's str hash (main.py:64)
    request,          \* the request last received
    response,         \* the response the handler gave to it
    served            \* a client's record of the first sequence it was served

vars == <<ancient_data, GEMINI_API_KEY, hashSeed, request, response, served>>

None == [op |-> "none"]

-----------------------------------------------------------------------------
(* Bounds and input domains *)

MaxBatch == 2          \* longest uploaded batch (rows of a CSV, JSON samples)
MaxLen == 3            \* longest string handed to calculate_similarity
FloatMax == 1000       \* scaled stand-in for the largest finite double

Ids == {"A1", "B2"}
UnknownId == "Z9"
Regions == {"Andes", "Nile"}
Seeds == {"x", "y"}
HugeAge == 4 * FloatMax        \* an age whose average overflows a double
Ages == {0, 500}

SampleData == [id : Ids, region : Regions, age : Ages, seed : Seeds]

-----------------------------------------------------------------------------
(* Python dict *)

DictHas(d, k) == \E i \in 1..Len(d) : d[i].key = k

DictGet(d, k) == (CHOOSE e \in {d[i] : i \in 1..Len(d)} : e.key = k).value

\* a buggy dict that moves an overwritten key to the end
DictSetMoveToEnd(d, k, v) ==
    Append(SelectSeq(d, LAMBDA e : e.key # k), [key |-> k, value |-> v])

\* d[k] = v : an existing key keeps its position, a new key goes last
DictSet(d, k, v) ==
    IF DictHas(d, k)
    THEN [i \in 1..Len(d) |-> IF d[i].key = k THEN [key |-> k, value |-> v] ELSE d[i]]
    ELSE Append(d, [key |-> k, value |-> v])

DictKeys(d) == [i \in 1..Len(d) |-> d[i].key]

NoDuplicateKeys(d) == \A i, j \in 1..Len(d) : d[i].key = d[j].key => i = j

-----------------------------------------------------------------------------
(* Store *)

Fields(s) == [region |-> s.region, age |-> s.age, seed |-> s.seed]

\* a buggy upsert that keeps the seed of the record it overwrites
process_sample_data_merge(d, s) ==
    IF DictHas(d, s.id)
    THEN DictSet(d, s.id, [region |-> s.region, age |-> s.age, seed |-> DictGet(d, s.id).seed])
    ELSE DictSet(d, s.id, Fields(s))

process_sample_data(d, s) == DictSet(d, s.id, Fields(s))

RECURSIVE ProcessAll(_, _)
ProcessAll(d, samples) ==
    IF samples = <<>> THEN d
    ELSE ProcessAll(process_sample_data(d, Head(samples)), Tail(samples))

-----------------------------------------------------------------------------
(* Text *)

Str(s) ==
    CASE s = "A1" -> <<"A", "1">>
      [] s = "B2" -> <<"B", "2">>
      [] s = "Z9" -> <<"Z", "9">>
      [] s = "Andes" -> <<"A", "n", "d", "e", "s">>
      [] s = "Nile" -> <<"N", "i", "l", "e">>
      [] s = "x" -> <<"x">>
      [] s = "y" -> <<"y">>

Digit(n) == <<"0", "1", "2", "3", "4", "5", "6", "7", "8", "9">>[n + 1]

\* str(n) of a non-negative int
RECURSIVE IntStr(_)
IntStr(n) == IF n < 10 THEN <<Digit(n)>> ELSE Append(IntStr(n \div 10), Digit(n % 10))

\* ord(c) of the characters above
Ord(c) ==
    CASE c = "-" -> 45 [] c = ":" -> 58
      [] c = "0" -> 48 [] c = "1" -> 49 [] c = "2" -> 50 [] c = "3" -> 51
      [] c = "4" -> 52 [] c = "5" -> 53 [] c = "6" -> 54 [] c = "7" -> 55
      [] c = "8" -> 56 [] c = "9" -> 57
      [] c = "A" -> 65 [] c = "B" -> 66 [] c = "N" -> 78 [] c = "Z" -> 90
      [] c = "d" -> 100 [] c = "e" -> 101 [] c = "i" -> 105 [] c = "l" -> 108
      [] c = "n" -> 110 [] c = "s" -> 115 [] c = "x" -> 120 [] c = "y" -> 121

EndsWith(s, suffix) ==
    /\ Len(s) >= Len(suffix)
    /\ SubSeq(s, Len(s) - Len(suffix) + 1, Len(s)) = suffix

-----------------------------------------------------------------------------
(* Sequence generator *)

HashSeeds == {7, 11}      \* keys the interpreter may draw for str hashing

\* Folds the bytes of a string into a 16-bit digest, starting from key.
\* Stands for the library hash functions (SipHash keyed per process for
\* hash(), SHA-256 for hashlib): a function of the bytes and of the key.
RECURSIVE Digest(_, _)
Digest(key, s) ==
    IF s = <<>> THEN key
    ELSE Digest((key * 31 + Ord(Head(s))) % 65536, Tail(s))

\* hash(str): keyed by the process's hash seed
PyHash(s, seed) == Digest(seed, s)

\* int(hashlib.sha256(s).hexdigest()[:8], 16): no key
Sha256Prefix(s) == Digest(5381, s)

Alphabet == <<"A", "T", "C", "G">>

\* One step of the pseudo-random generator (stands for the Mersenne Twister)
Advance(n) == (n * 25173 + 13849) % 65536

\* population[floor(random() * 4)] of the draw that leaves the generator in n
Pick(n) == Alphabet[(n \div 16384) + 1]

RECURSIVE AdvanceBy(_, _)
AdvanceBy(n, j) == IF j = 0 THEN n ELSE AdvanceBy(Advance(n), j - 1)

RECURSIVE Draws(_, _)
Draws(n, j) == IF j = 0 THEN <<>> ELSE <<Pick(Advance(n))>> \o Draws(Advance(n), j - 1)

\* random.seed(n) then random.choices("ATCG", k=k): k draws from the
\* generator state n, taken ten at a time
RECURSIVE RandomChoices(_, _)
RandomChoices(n, k) ==
    IF k <= 10 THEN Draws(n, k)
    ELSE Draws(n, 10) \o RandomChoices(AdvanceBy(n, 10), k - 10)

MainSeqLen == 100
GenSeqLen == 200

\* main.py:62-65, the generator the endpoints call
generate_dna_sequence(sample_id, region, age, seed, hseed) ==
    RandomChoices(
        PyHash(Str(sample_id) \o <<"-">> \o Str(region) \o <<"-">>
               \o IntStr(age) \o <<"-">> \o Str(seed), hseed),
        MainSeqLen)

\* dna_generator.py:2-9
dna_generator_generate_dna_sequence(id, region, age, seed) ==
    RandomChoices(
        Sha256Prefix(Str(id) \o <<":">> \o Str(region) \o <<":">>
                     \o IntStr(age) \o <<":">> \o Str(seed)),
        GenSeqLen)

-----------------------------------------------------------------------------
(* Similarity *)

Min(a, b) == IF a <= b THEN a ELSE b

\* sum(1 for a, b in zip(seq1, seq2) if a == b)
Matches(seq1, seq2) ==
    Cardinality({i \in 1..Min(Len(seq1), Len(seq2)) : seq1[i] = seq2[i]})

\* a / b rounded to the nearest integer, halves to the even one (b > 0)
RoundDiv(a, b) ==
    LET q == a \div b
        r == a % b
    IN  IF 2 * r > b \/ (2 * r = b /\ q % 2 = 1) THEN q + 1 ELSE q

\* round(num / den * 100, 2) in hundredths of a percent, den > 0
RoundPercent(num, den) == RoundDiv(num * 10000, den)

\* The outcome of a Python expression: a value, or an exception raised
Returned(v) == [raised |-> "", value |-> v]
Raised(exc) == [raised |-> exc, value |-> 0]

\* a comparator that divides by len(seq1), as compare_sequences does
calculate_similarity_len1(seq1, seq2) ==
    IF Len(seq1) = 0 THEN Raised("ZeroDivisionError")
    ELSE Returned(RoundPercent(Matches(seq1, seq2), Len(seq1)))

\* utils.py:14-17
calculate_similarity(seq1, seq2) ==
    LET matches == Matches(seq1, seq2)
        length == Min(Len(seq1), Len(seq2))
    IN  IF length = 0 THEN Raised("ZeroDivisionError")
        ELSE Returned(RoundPercent(matches, length))

-----------------------------------------------------------------------------
(* Requests *)

\* Batches of at most MaxBatch elements of S
Batches(S) == UNION {[1..n -> S] : n \in 0..MaxBatch}

\* The samples of the JSON batches
JsonSamples == {s \in SampleData : s.age = 0 /\ s.seed = "y"}

\* A cell of the age column as pandas hands it over: an integer, a missing
\* value (NaN), or text that int() rejects
IntCell(n) == [kind |-> "int", v |-> n]
NaNCell == [kind |-> "nan", v |-> 0]
TextCell == [kind |-> "text", v |-> 0]

CsvRows ==
    {r \in [id : Ids, region : {"Andes"}, age : {IntCell(500), NaNCell, TextCell},
            seed : {"x"}] :
        (r.id = "A1" => r.age # NaNCell) /\ (r.id = "B2" => r.age.kind # "int")}

CsvName == <<"d", ".", "c", "s", "v">>
TxtName == <<"d", ".", "t", "x", "t">>
DotCsv == <<".", "c", "s", "v">>

NoFile == [filename |-> <<>>, readable |-> FALSE, rows |-> <<>>, present |-> FALSE]

UploadFiles ==
    {NoFile}
      \cup {[filename |-> TxtName, readable |-> TRUE, rows |-> <<>>, present |-> TRUE]}
      \cup {[filename |-> CsvName, readable |-> FALSE, rows |-> <<>>, present |-> TRUE]}
      \cup {[filename |-> CsvName, readable |-> TRUE, rows |-> b, present |-> TRUE] :
                b \in Batches(CsvRows)}

-----------------------------------------------------------------------------
(* upload-csv *)

\* main.py:92-97: SampleData(id=str(row["id"]), ..., age=int(row["age"]) if
\* pd.notna(row["age"]) else 0, ...)
RowSample(row) ==
    IF row.age.kind = "text" THEN Raised("ValueError")
    ELSE Returned([id |-> row.id, region |-> row.region,
                   age |-> IF row.age.kind = "nan" THEN 0 ELSE row.age.v,
                   seed |-> row.seed])

\* main.py:89-100: the loop over the rows; a row that raises is logged and skipped
RECURSIVE ProcessRows(_, _)
ProcessRows(d, rows) ==
    IF rows = <<>> THEN d
    ELSE LET sample == RowSample(Head(rows))
         IN  ProcessRows(IF sample.raised = "" THEN process_sample_data(d, sample.value)
                         ELSE d,
                         Tail(rows))

\* main.py:102: len(df)
CsvCount(rows) == Len(rows)

\* main.py:68-106
upload_csv(file) ==
    /\ request' = [op |-> "upload-csv", file |-> file]
    /\ IF ~file.present
       THEN /\ response' = [op |-> "upload-csv", status |-> 400, count |-> 0]
            /\ UNCHANGED ancient_data
       ELSE IF ~EndsWith(file.filename, DotCsv)
       THEN /\ response' = [op |-> "upload-csv", status |-> 400, count |-> 0]
            /\ UNCHANGED ancient_data
       ELSE IF ~file.readable
       THEN /\ response' = [op |-> "upload-csv", status |-> 500, count |-> 0]
            /\ UNCHANGED ancient_data
       ELSE /\ ancient_data' = ProcessRows(ancient_data, file.rows)
            /\ response' = [op |-> "upload-csv", status |-> 200,
                            count |-> CsvCount(file.rows)]
    /\ UNCHANGED <<GEMINI_API_KEY, hashSeed, served>>

\* main.py:109-116
upload_json(samples) ==
    /\ request' = [op |-> "upload-json", samples |-> samples]
    /\ ancient_data' = ProcessAll(ancient_data, samples)
    /\ response' = [op |-> "upload-json", status |-> 200, count |-> Len(samples)]
    /\ UNCHANGED <<GEMINI_API_KEY, hashSeed, served>>

\* main.py:119-123
add_sample(sample) ==
    /\ request' = [op |-> "add-sample", sample |-> sample]
    /\ ancient_data' = process_sample_data(ancient_data, sample)
    /\ response' = [op |-> "add-sample", status |-> 200, count |-> 1]
    /\ UNCHANGED <<GEMINI_API_KEY, hashSeed, served>>

-----------------------------------------------------------------------------
(* generate-sequence, compare-sequences, list-samples *)

\* a lookup that looks at the first entry only
LookupFirstOnly(d, k) == d # <<>> /\ d[1].key = k

\* main.py:128, 138: sample_id in ancient_data
Lookup(d, k) == DictHas(d, k)

NoSequence == <<>>

\* main.py:126-133
get_sequence(sample_id) ==
    /\ request' = [op |-> "generate-sequence", sample_id |-> sample_id]
    /\ IF ~Lookup(ancient_data, sample_id)
       THEN /\ response' = [op |-> "generate-sequence", status |-> 404,
                            sequence |-> NoSequence]
            /\ UNCHANGED served
       ELSE LET data == DictGet(ancient_data, sample_id)
                sequence == generate_dna_sequence(
                                sample_id, data.region, data.age, data.seed, hashSeed)
            IN  /\ response' = [op |-> "generate-sequence", status |-> 200,
                                sequence |-> sequence]
                /\ served' = IF served = None
                             THEN [op |-> "served", sample_id |-> sample_id,
                                   data |-> data, sequence |-> sequence]
                             ELSE served
    /\ UNCHANGED <<ancient_data, GEMINI_API_KEY, hashSeed>>

\* main.py:136-151
compare_sequences(id1, id2) ==
    /\ request' = [op |-> "compare-sequences", id1 |-> id1, id2 |-> id2]
    /\ IF ~Lookup(ancient_data, id1) \/ ~Lookup(ancient_data, id2)
       THEN response' = [op |-> "compare-sequences", status |-> 404, similarity |-> 0]
       ELSE LET d1 == DictGet(ancient_data, id1)
                d2 == DictGet(ancient_data, id2)
                seq1 == generate_dna_sequence(id1, d1.region, d1.age, d1.seed, hashSeed)
                seq2 == generate_dna_sequence(id2, d2.region, d2.age, d2.seed, hashSeed)
                matches == Matches(seq1, seq2)
            IN  response' = [op |-> "compare-sequences", status |-> 200,
                             similarity |-> RoundPercent(matches, Len(seq1))]
    /\ UNCHANGED <<ancient_data, GEMINI_API_KEY, hashSeed, served>>

\* main.py:156-164: one entry per item of the dict, in iteration order
Samples(d) ==
    [i \in 1..Len(d) |-> [id |-> d[i].key, region |-> d[i].value.region,
                          age |-> d[i].value.age, seed |-> d[i].value.seed]]

\* main.py:154-164
list_samples ==
    /\ request' = [op |-> "list-samples"]
    /\ response' = [op |-> "list-samples", status |-> 200,
                    samples |-> Samples(ancient_data)]
    /\ UNCHANGED <<ancient_data, GEMINI_API_KEY, hashSeed, served>>

-----------------------------------------------------------------------------------------------------------------------------------------------------
(* Process start *)

NoKey == "unset"                       \* os.getenv returned None
ApiKeys == {NoKey, "", "secret"}

\* main.py:30, 46, and the interpreter drawing its hash key: the state of a
\* process that has just started
Start(data, key, hseed) ==
    /\ data = <<>>
    /\ key \in ApiKeys
    /\ hseed \in HashSeeds

\* The process is stopped and started again in the same environment
Restart ==
    /\ Start(ancient_data', GEMINI_API_KEY', hashSeed')
    /\ GEMINI_API_KEY' = GEMINI_API_KEY
    /\ request' = None
    /\ response' = None
    /\ UNCHANGED served

-----------------------------------------------------------------------------
(* The store and its write and list endpoints *)

Init ==
    /\ Start(ancient_data, GEMINI_API_KEY, hashSeed)
    /\ GEMINI_API_KEY = NoKey
    /\ hashSeed = 7
    /\ request = None
    /\ response = None
    /\ served = None

AddSample == \E s \in SampleData : add_sample(s)
UploadJson == \E b \in Batches(JsonSamples) : upload_json(b)
UploadCsv == \E f \in UploadFiles : upload_csv(f)
ListSamples == list_samples

Next ==
    \/ AddSample
    \/ UploadJson
    \/ UploadCsv
    \/ ListSamples

Spec == Init /\ [][Next]_vars

-----------------------------------------------------------------------------
(* The read endpoints, over process restarts *)

ReadSamples == {s \in SampleData : s.age = 500 /\ s.seed = "x"}

InitRead ==
    /\ Start(ancient_data, GEMINI_API_KEY, hashSeed)
    /\ GEMINI_API_KEY = NoKey
    /\ request = None
    /\ response = None
    /\ served = None

AddReadSample == \E s \in ReadSamples : add_sample(s)
GetSequence == \E i \in Ids \cup {UnknownId} : get_sequence(i)
CompareSequences == \E i, j \in Ids \cup {UnknownId} : compare_sequences(i, j)

NextRead ==
    \/ AddReadSample
    \/ GetSequence
    \/ CompareSequences
    \/ Restart

SpecRead == InitRead /\ [][NextRead]_vars

-----------------------------------------------------------------------------
(* calculate_similarity on its own *)

\* Strings over the alphabet of at most MaxLen characters
Strings == UNION {[1..n -> {"A", "T", "C", "G"}] : n \in 0..MaxLen}

InitSim ==
    /\ Start(ancient_data, GEMINI_API_KEY, hashSeed)
    /\ GEMINI_API_KEY = NoKey
    /\ hashSeed = 7
    /\ request \in [op : {"calculate_similarity"}, seq1 : Strings, seq2 : Strings]
    /\ response = None
    /\ served = None

CalculateSimilarity ==
    /\ request.op = "calculate_similarity"
    /\ response = None
    /\ response' = [op |-> "calculate_similarity",
                    result |-> calculate_similarity(request.seq1, request.seq2)]
    /\ UNCHANGED <<ancient_data, GEMINI_API_KEY, hashSeed, request, served>>

NextSim == CalculateSimilarity

SpecSim == InitSim /\ [][NextSim]_vars

-----------------------------------------------------------------------------
(* ask-me-anything *)

\* str.lower() on the letters the questions use
LowerChar(c) ==
    CASE c = "C" -> "c"
      [] c = "A" -> "a"
      [] c = "E" -> "e"
      [] c = "G" -> "g"
      [] c = "I" -> "i"
      [] c = "N" -> "n"
      [] c = "O" -> "o"
      [] c = "R" -> "r"
      [] c = "S" -> "s"
      [] c = "V" -> "v"
      [] OTHER -> c

Lower(s) == [i \in 1..Len(s) |-> LowerChar(s[i])]

\* w in s
Contains(s, w) == \E i \in 1..(Len(s) - Len(w) + 1) : SubSeq(s, i, i + Len(w) - 1) = w

WordRegions == <<"r", "e", "g", "i", "o", "n", "s">>
WordRegion == <<"r", "e", "g", "i", "o", "n">>
WordAverage == <<"a", "v", "e", "r", "a", "g", "e">>
WordAge == <<"a", "g", "e">>
WordMany == <<"m", "a", "n", "y">>
WordCount == <<"c", "o", "u", "n", "t">>
WordNumber == <<"n", "u", "m", "b", "e", "r">>
WordRecords == <<"r", "e", "c", "o", "r", "d", "s">>
WordSamples == <<"s", "a", "m", "p", "l", "e", "s">>

Questions ==
    {<<"h", "o", "w", " ", "m", "a", "n", "y", " ", "s", "a", "m", "p", "l", "e", "s", "?">>,
     <<"a", "v", "e", "r", "a", "g", "e", " ", "a", "g", "e">>,
     <<"a", "v", "e", "r", "a", "g", "e", " ", "a", "g", "e", " ", "b", "y", " ", "r", "e", "g", "i", "o", "n">>,
     <<"A", "v", "e", "r", "a", "g", "e", " ", "A", "G", "E">>,
     <<"a", "v", "e", "r", "a", "g", "e">>,
     <<"a", "g", "e">>,
     <<"R", "e", "g", "i", "o", "n">>,
     <<"R", "E", "G", "I", "O", "N", "S", " ", "c", "o", "u", "n", "t">>,
     <<"c", "o", "u", "n", "t">>,
     <<"n", "u", "m", "b", "e", "r">>,
     <<"r", "e", "c", "o", "r", "d", "s">>,
     <<"s", "a", "m", "p", "l", "e", "s">>,
     <<"m", "a", "n", "y">>,
     <<"h", "e", "l", "l", "o">>,
     <<"a", "g", "e", " ", "o", "f", " ", "s", "a", "m", "p", "l", "e", "s">>}

HowManySamples == <<"h", "o", "w", " ", "m", "a", "n", "y", " ", "s", "a", "m", "p", "l", "e", "s", "?">>

\* main.py:215
CountWords == {WordMany, WordCount, WordNumber, WordRecords, WordSamples}

\* if GEMINI_API_KEY
Configured(key) == key # NoKey /\ key # ""

\* a dispatcher that tests the region keywords first
RouteRegionFirst(q, key) ==
    IF Contains(q, WordRegion) \/ Contains(q, WordRegions) THEN "region"
    ELSE IF Contains(q, WordAverage) /\ Contains(q, WordAge) THEN "average"
    ELSE IF \E w \in CountWords : Contains(q, w) THEN "count"
    ELSE IF Configured(key) THEN "delegate"
    ELSE "insufficient"

\* main.py:183, 197, 215, 219, 274: the branch taken for the lower-cased question
Route(q, key) ==
    IF Contains(q, WordAverage) /\ Contains(q, WordAge) THEN "average"
    ELSE IF Contains(q, WordRegion) \/ Contains(q, WordRegions) THEN "region"
    ELSE IF \E w \in CountWords : Contains(q, w) THEN "count"
    ELSE IF Configured(key) THEN "delegate"
    ELSE "insufficient"

Answer(kind, number, text, regions) ==
    [kind |-> kind, number |-> number, text |-> text, regions |-> regions]

RECURSIVE Sum(_)
Sum(s) == IF s = <<>> THEN 0 ELSE Head(s) + Sum(Tail(s))

\* main.py:186-191: the average of the ages, as "%.2f" prints it (hundredths);
\* int / int raises OverflowError when the quotient exceeds the largest double
AverageBody(d) ==
    LET ages == [i \in 1..Len(d) |-> d[i].value.age]
    IN  IF ages = <<>> THEN Returned(Answer("no-age-data", 0, "", <<>>))
        ELSE IF Sum(ages) > FloatMax * Len(ages) THEN Raised("OverflowError")
        ELSE Returned(Answer("average", RoundDiv(Sum(ages) * 100, Len(ages)), "", <<>>))

\* main.py:184-194: try ... except Exception
AverageAge(d) ==
    LET r == AverageBody(d)
    IN  IF r.raised # "" THEN Returned(Answer("average-error", 0, r.raised, <<>>)) ELSE r

\* main.py:201-206: the regions counted, in order of first occurrence
RECURSIVE CountRegions(_, _)
CountRegions(regions, regions_count) ==
    IF regions = <<>> THEN regions_count
    ELSE LET region == Head(regions)
         IN  CountRegions(Tail(regions),
                 IF DictHas(regions_count, region)
                 THEN DictSet(regions_count, region, DictGet(regions_count, region) + 1)
                 ELSE DictSet(regions_count, region, 1))

\* main.py:198-212
RegionInfo(d) ==
    LET regions == [i \in 1..Len(d) |-> d[i].value.region]
    IN  Returned(Answer("regions", 0, "", CountRegions(regions, <<>>)))

\* main.py:216
TotalCount(d) == Returned(Answer("count", Len(d), "", <<>>))

\* What the external endpoint does with the one request it is sent
LlmOutcomes ==
    {[kind |-> "network-error", status |-> 0, text |-> ""],
     [kind |-> "status", status |-> 500, text |-> ""],
     [kind |-> "not-json", status |-> 200, text |-> ""],
     [kind |-> "no-candidates", status |-> 200, text |-> ""],
     [kind |-> "empty-candidates", status |-> 200, text |-> ""],
     [kind |-> "null-candidates", status |-> 200, text |-> ""],
     [kind |-> "text", status |-> 200, text |-> "answer"]}

\* main.py:263: response_data["candidates"][0]["content"]["parts"][0]["text"]
Extract(llm) ==
    CASE llm.kind = "no-candidates" -> Raised("KeyError")
      [] llm.kind = "empty-candidates" -> Raised("IndexError")
      [] llm.kind = "null-candidates" -> Raised("TypeError")
      [] OTHER -> Returned(llm.text)

\* main.py:258-270: the call and the reading of its response
DelegateBody(llm) ==
    IF llm.kind = "network-error" THEN Raised("ConnectionError")
    ELSE IF llm.status # 200 THEN Returned(Answer("llm-status", llm.status, "", <<>>))
    ELSE IF llm.kind = "not-json" THEN Raised("JSONDecodeError")
    ELSE LET text == Extract(llm)
         IN  IF text.raised \in {"KeyError", "IndexError"}
             THEN Returned(Answer("llm-unprocessable", 0, "", <<>>))
             ELSE IF text.raised # "" THEN text
             ELSE Returned(Answer("llm-text", 0, text.value, <<>>))

\* a delegate that catches nothing around the call
DelegateNoCatch(llm) == DelegateBody(llm)

\* main.py:220-273: try ... except Exception
Delegate(llm) ==
    LET r == DelegateBody(llm)
    IN  IF r.raised # "" THEN Returned(Answer("llm-error", 0, r.raised, <<>>)) ELSE r

ContextLimit == 10

\* main.py:222-227: the prompt, the first ten records and the question
Prompt(d, question) ==
    [context |-> SubSeq(d, 1, Min(ContextLimit, Len(d))), question |-> question]

NoPrompt == [context |-> <<>>, question |-> <<>>]

\* an emptiness test that never finds the store empty
StoreIsEmptyNever(d) == FALSE

\* main.py:176: not ancient_data
StoreIsEmpty(d) == d = <<>>

NoAnswer == Answer("", 0, "", <<>>)

\* main.py:177, 275
NoDataText == "No data has been uploaded yet. Please upload a CSV file first."
InsufficientText == "I'm sorry, I don't have enough information to answer that question. Please try asking about the age, region, or number of records in the uploaded data."

\* main.py:170-275; an exception that leaves the handler is a 500 response
ask_me_anything(question, llm) ==
    LET route == Route(Lower(question), GEMINI_API_KEY)
        delegated == ~StoreIsEmpty(ancient_data) /\ route = "delegate"
        out == IF StoreIsEmpty(ancient_data)
               THEN Returned(Answer("no-data", 0, NoDataText, <<>>))
               ELSE CASE route = "average" -> AverageAge(ancient_data)
                      [] route = "region" -> RegionInfo(ancient_data)
                      [] route = "count" -> TotalCount(ancient_data)
                      [] route = "delegate" -> Delegate(llm)
                      [] OTHER -> Returned(Answer("insufficient", 0, InsufficientText, <<>>))
    IN  /\ request' = [op |-> "ask-me-anything", question |-> question]
        /\ response' = [op |-> "ask-me-anything",
                        status |-> IF out.raised = "" THEN 200 ELSE 500,
                        answer |-> IF out.raised = "" THEN out.value ELSE NoAnswer,
                        llm_calls |-> IF delegated THEN 1 ELSE 0,
                        prompt |-> IF delegated THEN Prompt(ancient_data, question)
                                   ELSE NoPrompt]
        /\ UNCHANGED <<ancient_data, GEMINI_API_KEY, hashSeed, served>>

-----------------------------------------------------------------------------
(* Questions about the uploaded data *)

AskSamples == [id : Ids, region : Regions, age : {500, HugeAge}, seed : {"x"}]

InitAsk ==
    /\ Start(ancient_data, GEMINI_API_KEY, hashSeed)
    /\ hashSeed = 7
    /\ request = None
    /\ response = None
    /\ served = None

AddAskSample == \E s \in AskSamples : add_sample(s)
\* The external endpoint answers only a request that is sent to it
NotCalled == [kind |-> "not-called", status |-> 0, text |-> ""]

AskMeAnything ==
    \E q \in Questions :
        \E llm \in IF ancient_data # <<>> /\ Route(Lower(q), GEMINI_API_KEY) = "delegate"
                   THEN LlmOutcomes ELSE {NotCalled} :
            ask_me_anything(q, llm)

NextAsk ==
    \/ AddAskSample
    \/ AskMeAnything

SpecAsk == InitAsk /\ [][NextAsk]_vars

-----------------------------------------------------------------------------
(* Properties *)

IsPrefix(s, u) == Len(s) <= Len(u) /\ SubSeq(u, 1, Len(s)) = s

Abs(n) == IF n < 0 THEN -n ELSE n

\* The samples a write request hands to the store, in order
Upserts(req, resp) ==
    CASE req.op = "add-sample" -> <<req.sample>>
      [] req.op = "upload-json" -> req.samples
      [] req.op = "upload-csv" ->
            IF resp.status # 200 THEN <<>>
            ELSE LET good == SelectSeq(req.file.rows, LAMBDA r : r.age.kind # "text")
                 IN  [i \in 1..Len(good) |->
                         [id |-> good[i].id, region |-> good[i].region,
                          age |-> IF good[i].age.kind = "nan" THEN 0 ELSE good[i].age.v,
                          seed |-> good[i].seed]]

\* C1: after an upsert request (add-sample, upload-json, upload-csv) the store
\* holds, for every id the request wrote, exactly the region, age and seed of
\* the request's last record of that id, each id once; every other id's entry
\* is as it was before the request.
C1_LastWriteWins ==
    [][request'.op \in {"add-sample", "upload-json", "upload-csv"} =>
        LET ups == Upserts(request', response')
        IN  /\ NoDuplicateKeys(ancient_data')
            /\ \A id \in Ids \cup {UnknownId} :
                 LET writes == {i \in 1..Len(ups) : ups[i].id = id}
                 IN  IF writes # {}
                     THEN LET last == CHOOSE i \in writes : \A j \in writes : j <= i
                          IN  /\ DictHas(ancient_data', id)
                              /\ DictGet(ancient_data', id).region = ups[last].region
                              /\ DictGet(ancient_data', id).age = ups[last].age
                              /\ DictGet(ancient_data', id).seed = ups[last].seed
                     ELSE /\ DictHas(ancient_data', id) = DictHas(ancient_data, id)
                          /\ DictHas(ancient_data, id) =>
                               DictGet(ancient_data', id) = DictGet(ancient_data, id)]_vars

\* add-sample has just overwritten the id that was stored first, another id
\* being stored as well
C1_Witness ==
    /\ request.op = "add-sample"
    /\ Len(ancient_data) = 2
    /\ ancient_data[1].key = request.sample.id
    /\ ancient_data[1].value = Fields(request.sample)

\* C2: generate-sequence answers 404 exactly when its sample_id is not stored,
\* compare-sequences answers 404 exactly when id1 or id2 is not stored;
\* otherwise they answer 200 with a result; the store is unchanged either way.
C2_NotFound ==
    [][/\ request'.op = "generate-sequence" =>
            /\ response'.status =
                 IF DictHas(ancient_data, request'.sample_id) THEN 200 ELSE 404
            /\ (response'.status = 200) = (response'.sequence # NoSequence)
            /\ ancient_data' = ancient_data
       /\ request'.op = "compare-sequences" =>
            /\ response'.status =
                 IF DictHas(ancient_data, request'.id1) /\ DictHas(ancient_data, request'.id2)
                 THEN 200 ELSE 404
            /\ ancient_data' = ancient_data]_vars

\* compare-sequences of a stored id with an unknown one was refused
C2_Witness ==
    /\ response.op = "compare-sequences"
    /\ response.status = 404
    /\ DictHas(ancient_data, request.id1)
    /\ ~DictHas(ancient_data, request.id2)

\* C3 as stated: with an empty store, "how many samples?" is answered
\* "There are 0 records in the uploaded data."
C3_ZeroRecords ==
    (/\ response.op = "ask-me-anything"
     /\ request.question = HowManySamples
     /\ ancient_data = <<>>)
        => /\ response.answer.kind = "count"
           /\ response.answer.number = 0

\* C3 amended: with an empty store every question, "how many samples?"
\* included, is answered with the fixed no-data text, and the external
\* endpoint is not called.
C3_NoDataAnswer ==
    (/\ response.op = "ask-me-anything"
     /\ ancient_data = <<>>)
        => /\ response.status = 200
           /\ response.answer.kind = "no-data"
           /\ response.answer.text = NoDataText
           /\ response.llm_calls = 0

\* "how many samples?" was asked of an empty store
C3_Witness ==
    /\ response.op = "ask-me-anything"
    /\ request.question = HowManySamples
    /\ ancient_data = <<>>
    /\ response.answer.text = NoDataText

\* C4: with a non-empty store the answer comes from the first path that
\* matches the lower-cased question: (a) "average" and "age" -> average age,
\* (b) "region" -> region histogram, (c) one of many/count/number/records/
\* samples -> total count, (d) credential configured -> external delegate,
\* (e) otherwise the fixed insufficient-information answer; the delegate is
\* called once on path (d) and never on the others.
C4_KeywordPriority ==
    (/\ response.op = "ask-me-anything"
     /\ ancient_data # <<>>)
        => LET q == Lower(request.question)
               kind == response.answer.kind
           IN  IF Contains(q, WordAverage) /\ Contains(q, WordAge)
               THEN kind \in {"average", "average-error"} /\ response.llm_calls = 0
               ELSE IF Contains(q, WordRegion)
               THEN kind = "regions" /\ response.llm_calls = 0
               ELSE IF \E w \in {WordMany, WordCount, WordNumber, WordRecords, WordSamples} :
                           Contains(q, w)
               THEN /\ kind = "count"
                    /\ response.answer.number = Len(ancient_data)
                    /\ response.llm_calls = 0
               ELSE IF GEMINI_API_KEY \notin {NoKey, ""}
               THEN /\ kind \in {"llm-text", "llm-unprocessable", "llm-status", "llm-error"}
                    /\ response.llm_calls = 1
               ELSE /\ kind = "insufficient"
                    /\ response.answer.text = InsufficientText
                    /\ response.llm_calls = 0

\* "average age by region" was answered with the average age
C4_Witness ==
    /\ response.op = "ask-me-anything"
    /\ Contains(request.question, WordAverage \o <<" ">> \o WordAge)
    /\ Contains(request.question, WordRegion)
    /\ response.answer.kind = "average"

\* C5: a batch upload that succeeds reports as its count the number of
\* records of the batch that were upserted into the store.
C5_CountIsUpserted ==
    (/\ response.op \in {"upload-csv", "upload-json"}
     /\ response.status = 200)
        => response.count = Len(Upserts(request, response))

\* C6: a sequence served by generate-sequence has length 200 and every
\* character of it is one of A, T, C, G.
C6_Length200 ==
    (/\ response.op = "generate-sequence"
     /\ response.status = 200)
        => /\ Len(response.sequence) = GenSeqLen
           /\ \A i \in 1..Len(response.sequence) :
                response.sequence[i] \in {"A", "T", "C", "G"}

\* C7: a sequence served for an (id, region, age, seed) equals the sequence
\* served for the same four values before, in this run of the process or in
\* an earlier one.
C7_Deterministic ==
    (/\ response.op = "generate-sequence"
     /\ response.status = 200
     /\ served # None
     /\ served.sample_id = request.sample_id
     /\ served.data = DictGet(ancient_data, request.sample_id))
        => response.sequence = served.sequence

\* C8 as stated: the similarity of any two strings is a value within
\* [0.00, 100.00].
C8_AlwaysInRange ==
    response.op = "calculate_similarity"
        => /\ response.result.raised = ""
           /\ response.result.value >= 0
           /\ response.result.value <= 10000

\* C8 amended: for non-empty a and b the similarity is the number of matching
\* positions of the overlapping prefix over min(len(a), len(b)), times 100, to
\* the nearest hundredth; it is within [0.00, 100.00], 100.00 for a = b, and
\* the same for (b, a).  When a or b is empty the division by the zero
\* length raises ZeroDivisionError.
C8_SimilarityOfNonEmpty ==
    response.op = "calculate_similarity"
        => LET a == request.seq1
               b == request.seq2
               m == IF Len(a) <= Len(b) THEN Len(a) ELSE Len(b)
               k == Cardinality({i \in 1..m : a[i] = b[i]})
               r == response.result
           IN  IF m = 0
               THEN r.raised = "ZeroDivisionError"
               ELSE /\ r.raised = ""
                    /\ 2 * Abs(r.value * m - 10000 * k) <= m
                    /\ r.value >= 0
                    /\ r.value <= 10000
                    /\ a = b => r.value = 10000
                    /\ r = calculate_similarity(b, a)

\* two strings of different lengths that agree on a part of the shorter one
C8_Witness ==
    /\ response.op = "calculate_similarity"
    /\ Len(request.seq1) > Len(request.seq2)
    /\ Len(request.seq2) > 1
    /\ response.result.raised = ""
    /\ response.result.value = 5000

\* C9: every ask-me-anything request ends with status 200 and an answer,
\* whatever the question, the store and the behaviour of the external
\* endpoint; the endpoint is called at most once and the store is unchanged.
C9_AlwaysAnswers ==
    [][response'.op = "ask-me-anything" =>
        /\ response'.status = 200
        /\ response'.answer.kind # ""
        /\ response'.llm_calls <= 1
        /\ (response'.answer.kind \in {"llm-text", "llm-unprocessable", "llm-status",
                                       "llm-error"}) = (response'.llm_calls = 1)
        /\ ancient_data' = ancient_data]_vars

\* a response of the external endpoint that made the reading of it raise
\* TypeError was turned into an answer
C9_Witness ==
    /\ response.op = "ask-me-anything"
    /\ response.status = 200
    /\ response.llm_calls = 1
    /\ response.answer.kind = "llm-error"
    /\ response.answer.text = "TypeError"

\* C10 as stated: samples are listed in the order in which their ids were
\* last written, so the id written by add-sample is the last one listed.
C10_LastWriteOrder ==
    [][request'.op = "add-sample" =>
        ancient_data'[Len(ancient_data')].key = request'.sample.id]_vars

\* C10 amended: list-samples returns every stored id exactly once with its
\* current region, age and seed; no entry disappears; samples are listed in
\* the order in which their ids were first inserted: an overwritten id keeps
\* its place and a new id goes last.
C10_FirstInsertionOrder ==
    [][/\ IsPrefix(DictKeys(ancient_data), DictKeys(ancient_data'))
       /\ NoDuplicateKeys(ancient_data')
       /\ request'.op = "list-samples" =>
            /\ response'.status = 200
            /\ Len(response'.samples) = Len(ancient_data)
            /\ \A i \in 1..Len(ancient_data) :
                 /\ response'.samples[i].id = ancient_data[i].key
                 /\ response'.samples[i].region = ancient_data[i].value.region
                 /\ response'.samples[i].age = ancient_data[i].value.age
                 /\ response'.samples[i].seed = ancient_data[i].value.seed]_vars

\* a one-sample JSON upload has overwritten the id stored first, which is
\* still listed first
C10_Witness ==
    /\ request.op = "upload-json"
    /\ Len(request.samples) = 1
    /\ Len(ancient_data) = 2
    /\ ancient_data[1].key = request.samples[1].id

====
